---- MODULE Spec2Model ----
(***************************************************************************)
(* A model of imitation.regularization (src/src/imitation/regularization/  *)
(* __init__.py): the Regularizer base class, its two families              *)
(* (LossRegularizer, WeightRegularizer), the concrete LpRegularizer and    *)
(* WeightDecayRegularizer, and the lambda-update strategies                 *)
(* IntervalParamScaler and ConstantParamScaler.                            *)
(*                                                                         *)
(* Numbers.  A Python float or tensor entry is modelled by an exact        *)
(* extended rational <<n, d>>: d > 0 is the rational n/d in lowest terms,  *)
(* <<0, 0>> is NaN, <<1, 0>> is +inf and <<-1, 0>> is -inf.  Rounding of   *)
(* IEEE arithmetic is not modelled; every product and sum is exact.        *)
(***************************************************************************)
EXTENDS Integers, Sequences, FiniteSets, TLC

VARIABLES
    pc,              \* "new" before Regularizer.__init__ has run, "ready" after
    cls,             \* the concrete class: "LpRegularizer" | "WeightDecayRegularizer"
    optimizer,       \* optimizer.param_groups: Seq of [lr, params], params a Seq of tensors
    logger,          \* the records made on the logger, oldest first: Seq of <<key, value>>
    args,            \* the constructor's arguments initial_lambda, lambda_updater and p
    bound,           \* self.optimizer, self.logger: the objects they refer to
    lambda_,         \* self.lambda_ (Unset before construction)
    lambda_updater,  \* self.lambda_updater
    p,               \* LpRegularizer.p
    last,            \* the most recent call: its operation, arguments, events and outcome
    ncalls           \* number of calls made after construction

vars == <<pc, cls, optimizer, logger, args, bound, lambda_, lambda_updater, p,
          last, ncalls>>

(***************************************************************************)
(* Bounds of the model: MaxCalls calls after construction, p in 1..MaxP.    *)
(* The exact numerators and denominators stay within TLC's 32-bit integers *)
(* for up to 3 calls with the inputs below.                                *)
(***************************************************************************)
MaxCalls == 2
MaxP == 2

(***************************************************************************)
(* Extended rational arithmetic.                                           *)
(***************************************************************************)
Abs(x) == IF x < 0 THEN -x ELSE x

Sign(x) == IF x < 0 THEN -1 ELSE IF x > 0 THEN 1 ELSE 0

RECURSIVE Gcd(_, _)
Gcd(a, b) == IF b = 0 THEN a ELSE Gcd(b, a % b)

\* n/d in lowest terms with a positive denominator (d # 0).
Rat(n, d) ==
    LET g == Gcd(Abs(n), Abs(d))
        s == IF d < 0 THEN -1 ELSE 1
    IN  <<(s * n) \div g, (s * d) \div g>>

NaN == <<0, 0>>
Inf(s) == <<s, 0>>
IsNaN(x) == x = NaN
IsFinite(x) == x[2] > 0
Zero == <<0, 1>>
One == <<1, 1>>

Neg(x) == <<-x[1], x[2]>>

RAbs(x) == <<Abs(x[1]), x[2]>>

Mul(x, y) ==
    IF IsFinite(x) /\ IsFinite(y) THEN Rat(x[1] * y[1], x[2] * y[2])
    ELSE IF IsNaN(x) \/ IsNaN(y) \/ x[1] = 0 \/ y[1] = 0 THEN NaN
    ELSE Inf(Sign(x[1]) * Sign(y[1]))

Add(x, y) ==
    IF IsFinite(x) /\ IsFinite(y) THEN Rat(x[1] * y[2] + y[1] * x[2], x[2] * y[2])
    ELSE IF IsNaN(x) \/ IsNaN(y) THEN NaN
    ELSE IF IsFinite(x) THEN y
    ELSE IF IsFinite(y) THEN x
    ELSE IF x = y THEN x ELSE NaN

Sub(x, y) == Add(x, Neg(y))

\* IEEE division, as a tensor operand computes it: x/0 is an infinity or NaN.
IeeeDiv(x, y) ==
    IF IsNaN(x) \/ IsNaN(y) THEN NaN
    ELSE IF IsFinite(x) /\ IsFinite(y) THEN
        IF y[1] # 0 THEN Rat(x[1] * y[2], x[2] * y[1])
        ELSE IF x[1] = 0 THEN NaN ELSE Inf(Sign(x[1]))
    ELSE IF IsFinite(x) THEN Zero
    ELSE IF IsFinite(y) THEN Inf(x[1] * (IF y[1] < 0 THEN -1 ELSE 1))
    ELSE NaN

\* x > y as IEEE compares: false when either side is NaN.
Gt(x, y) ==
    IF IsNaN(x) \/ IsNaN(y) THEN FALSE
    ELSE IF IsFinite(x) /\ IsFinite(y) THEN x[1] * y[2] > y[1] * x[2]
    ELSE IF IsFinite(x) THEN y[1] < 0
    ELSE IF IsFinite(y) THEN x[1] > 0
    ELSE x[1] > y[1]

Lt(x, y) == Gt(y, x)

RECURSIVE RPow(_, _)
RPow(x, k) == IF k = 0 THEN One ELSE Mul(x, RPow(x, k - 1))


(***************************************************************************)
(* Tensors: a parameter's data is a finite sequence of entries.            *)
(***************************************************************************)
\* th.add(a, b) on two tensors of the same shape.
TAdd(a, b) == [i \in DOMAIN a |-> Add(a[i], b[i])]

\* scalar * tensor.
TScale(c, a) == [i \in DOMAIN a |-> Mul(c, a[i])]

RECURSIVE SumAbsPow(_, _, _)
SumAbsPow(x, ord, i) ==
    IF i > Len(x) THEN Zero ELSE Add(RPow(RAbs(x[i]), ord), SumAbsPow(x, ord, i + 1))

\* th.linalg.vector_norm(x, ord): the ord-th root of sum |x_i|^ord, kept exact as
\* the pair (radicand, root).
vector_norm(x, ord) == [rad |-> SumAbsPow(x, ord, 1), root |-> ord]

\* Tensor.pow(e) of a norm value: (rad^(1/root))^e, rational when root divides e.
pow(nrm, e) == IF e % nrm.root = 0 THEN RPow(nrm.rad, e \div nrm.root) ELSE NaN

(***************************************************************************)
(* Loss values handed to update_params and to the strategies.  kind is the *)
(* Python type: "float", "int", "tensor0" (a zero-dimensional tensor) or   *)
(* "tensor1" (a tensor of dimension 1); v is the value (of every entry).   *)
(***************************************************************************)
Loss(k, v) == [kind |-> k, v |-> v]

Outcome(s, v) == [status |-> s, value |-> v]

Unset == <<>>

\* isinstance(x, float) or x.dim() == 0, the operand of the two asserts.
ScalarCheck(x) ==
    IF x.kind = "float" THEN "ok"
    ELSE IF x.kind = "int" THEN "AttributeError"      \* int has no attribute dim
    ELSE IF x.kind = "tensor0" THEN "ok"
    ELSE "AssertionError"

\* val_loss / train_loss: Python raises on a zero float divisor, a tensor operand
\* follows IEEE.
Divide(val_loss, train_loss) ==
    IF val_loss.kind = "float" /\ train_loss.kind = "float" /\ train_loss.v = Zero
    THEN Outcome("ZeroDivisionError", Unset)
    ELSE Outcome("ok", IeeeDiv(val_loss.v, train_loss.v))

\* IntervalParamScaler.__call__ with >= and <= for > and <.
MutIntervalNonStrict(self, lam, train_loss, val_loss) ==
    IF ScalarCheck(val_loss) # "ok" THEN Outcome(ScalarCheck(val_loss), Unset)
    ELSE IF ScalarCheck(train_loss) # "ok" THEN Outcome(ScalarCheck(train_loss), Unset)
    ELSE LET d == Divide(val_loss, train_loss)
             val_to_train_ratio == d.value
         IN  IF d.status # "ok" THEN d
             ELSE IF Gt(val_to_train_ratio, self.tolerable_interval[2])
                     \/ val_to_train_ratio = self.tolerable_interval[2]
                  THEN Outcome("ok", Mul(lam, Add(One, self.scaling_factor)))
             ELSE IF Lt(val_to_train_ratio, self.tolerable_interval[1])
                     \/ val_to_train_ratio = self.tolerable_interval[1]
                  THEN Outcome("ok", Mul(lam, Sub(One, self.scaling_factor)))
             ELSE Outcome("ok", lam)

\* IntervalParamScaler.__call__ scaling down by scaling_factor - 1.
MutIntervalSignSlip(self, lam, train_loss, val_loss) ==
    IF ScalarCheck(val_loss) # "ok" THEN Outcome(ScalarCheck(val_loss), Unset)
    ELSE IF ScalarCheck(train_loss) # "ok" THEN Outcome(ScalarCheck(train_loss), Unset)
    ELSE LET d == Divide(val_loss, train_loss)
             val_to_train_ratio == d.value
         IN  IF d.status # "ok" THEN d
             ELSE IF Gt(val_to_train_ratio, self.tolerable_interval[2])
                  THEN Outcome("ok", Mul(lam, Add(One, self.scaling_factor)))
             ELSE IF Lt(val_to_train_ratio, self.tolerable_interval[1])
                  THEN Outcome("ok", Mul(lam, Sub(self.scaling_factor, One)))
             ELSE Outcome("ok", lam)

\* IntervalParamScaler.__call__
IntervalParamScaler(self, lam, train_loss, val_loss) ==
    IF ScalarCheck(val_loss) # "ok" THEN Outcome(ScalarCheck(val_loss), Unset)
    ELSE IF ScalarCheck(train_loss) # "ok" THEN Outcome(ScalarCheck(train_loss), Unset)
    ELSE LET d == Divide(val_loss, train_loss)
             val_to_train_ratio == d.value
         IN  IF d.status # "ok" THEN d
             ELSE IF Gt(val_to_train_ratio, self.tolerable_interval[2])
                  THEN Outcome("ok", Mul(lam, Add(One, self.scaling_factor)))
             ELSE IF Lt(val_to_train_ratio, self.tolerable_interval[1])
                  THEN Outcome("ok", Mul(lam, Sub(One, self.scaling_factor)))
             ELSE Outcome("ok", lam)

\* ConstantParamScaler.__call__ that inspects the losses it should ignore.
MutConstantChecksLosses(lam, train_loss, val_loss) ==
    IF ScalarCheck(val_loss) # "ok" THEN Outcome(ScalarCheck(val_loss), Unset)
    ELSE IF IsNaN(val_loss.v) \/ IsNaN(train_loss.v) THEN Outcome("ok", NaN)
    ELSE Outcome("ok", lam)

\* ConstantParamScaler.__call__
ConstantParamScaler(lam, train_loss, val_loss) == Outcome("ok", lam)

\* self.lambda_updater(lam, train_loss, val_loss).  A strategy that is neither of
\* the two classes is any callable of the LambdaUpdater protocol: its outcome r is
\* an input of the model.
CallUpdater(updater, lam, train_loss, val_loss, r) ==
    IF updater.type = "IntervalParamScaler"
    THEN IntervalParamScaler(updater, lam, train_loss, val_loss)
    ELSE IF updater.type = "ConstantParamScaler"
    THEN ConstantParamScaler(lam, train_loss, val_loss)
    ELSE r

(***************************************************************************)
(* Events of one call, in program order.                                   *)
(***************************************************************************)
Event(e, a, r) == [ev |-> e, args |-> a, ret |-> r]

RECURSIVE RecordsOf(_)
\* The logger.record calls among a call's events, in order.
RecordsOf(events) ==
    IF events = <<>> THEN <<>>
    ELSE IF Head(events).ev = "record"
         THEN <<Head(events).args>> \o RecordsOf(Tail(events))
         ELSE RecordsOf(Tail(events))


(***************************************************************************)
(* The two families and the concrete penalties.  Each operation returns    *)
(* the events it performs, in order, with the values it leaves behind.     *)
(***************************************************************************)
RECURSIVE LpPenalty(_, _, _, _)
\* The loops of LpRegularizer._regularize_loss from parameter (g, i) on:
\* penalty += th.linalg.vector_norm(param.data, ord=self.p).pow(self.p)
LpPenalty(opt, ord, g, i) ==
    IF g > Len(opt) THEN Zero
    ELSE IF i > Len(opt[g].params) THEN LpPenalty(opt, ord, g + 1, 1)
    ELSE Add(pow(vector_norm(opt[g].params[i], ord), ord), LpPenalty(opt, ord, g, i + 1))

\* _regularize_loss that leaves the loop after the first parameter group.
MutLpFirstGroupOnly(lam, ord, opt, loss) == Mul(lam, LpPenalty(SubSeq(opt, 1, 1), ord, 1, 1))

\* LpRegularizer._regularize_loss: the loss is deleted, the penalty starts at 0.
LpRegularizer_regularize_loss(lam, ord, opt, loss) == Mul(lam, LpPenalty(opt, ord, 1, 1))

\* WeightDecayRegularizer._regularize_weight
WeightDecayRegularizer_regularize_weight(lam, weight, group) ==
    TScale(Mul(Neg(lam), group.lr), weight)

RECURSIVE MutLoopParamsGlobalLr(_, _, _, _, _)
\* The loops of regularize handing every parameter the first group.
MutLoopParamsGlobalLr(lam, opt, g, i, events) ==
    IF g > Len(opt) THEN [optimizer |-> opt, events |-> events]
    ELSE IF i > Len(opt[g].params) THEN MutLoopParamsGlobalLr(lam, opt, g + 1, 1, events)
    ELSE LET group == opt[1]
             param == opt[g].params[i]
             delta == WeightDecayRegularizer_regularize_weight(lam, param, group)
             data  == TAdd(param, delta)
         IN  MutLoopParamsGlobalLr(lam, [opt EXCEPT ![g].params[i] = data], g, i + 1,
                                   Append(events, Event("set_param", <<g, i, delta>>, data)))

RECURSIVE LoopParams(_, _, _, _, _)
\* The loops of WeightRegularizer.regularize from parameter (g, i) on:
\* param.data = th.add(param.data, self._regularize_weight(param, group))
LoopParams(lam, opt, g, i, events) ==
    IF g > Len(opt) THEN [optimizer |-> opt, events |-> events]
    ELSE IF i > Len(opt[g].params) THEN LoopParams(lam, opt, g + 1, 1, events)
    ELSE LET group == opt[g]
             param == group.params[i]
             delta == WeightDecayRegularizer_regularize_weight(lam, param, group)
             data  == TAdd(param, delta)
         IN  LoopParams(lam, [opt EXCEPT ![g].params[i] = data], g, i + 1,
                        Append(events, Event("set_param", <<g, i, delta>>, data)))

\* The outcome of Tensor.backward(): it completes, or raises (the loss has no
\* graph, the graph was already freed, ...).
BackwardOutcomes == {Outcome("ok", Unset), Outcome("RuntimeError", Unset)}

Step(lam, opt, events, outcome) ==
    [lambda_ |-> lam, optimizer |-> opt, events |-> events, outcome |-> outcome]

\* LossRegularizer.regularize that also records the lambda it used.
MutLossRegularizeRecordsLambda(lam, ord, opt, loss, b) ==
    LET term == LpRegularizer_regularize_loss(lam, ord, opt, loss)
        regularized_loss == Add(loss, term)
        e1 == Event("_regularize_loss", <<loss>>, term)
        e2 == Event("backward", <<regularized_loss>>, b)
        e3 == Event("record", <<"regularized_loss", regularized_loss>>, Unset)
        e4 == Event("record", <<"regularization_lambda", lam>>, Unset)
    IN  IF b.status # "ok" THEN Step(lam, opt, <<e1, e2>>, b)
        ELSE Step(lam, opt, <<e1, e2, e3, e4>>, Outcome("ok", regularized_loss))

\* LossRegularizer.regularize with the backward pass on the loss it was given.
MutLossRegularizeBackwardOnLoss(lam, ord, opt, loss, b) ==
    LET term == LpRegularizer_regularize_loss(lam, ord, opt, loss)
        regularized_loss == Add(loss, term)
        e1 == Event("_regularize_loss", <<loss>>, term)
        e2 == Event("backward", <<loss>>, b)
        e3 == Event("record", <<"regularized_loss", regularized_loss>>, Unset)
    IN  IF b.status # "ok" THEN Step(lam, opt, <<e1, e2>>, b)
        ELSE Step(lam, opt, <<e1, e2, e3>>, Outcome("ok", regularized_loss))

\* LossRegularizer.regularize, b the outcome of the backward pass.
LossRegularizer_regularize(lam, ord, opt, loss, b) ==
    LET term == LpRegularizer_regularize_loss(lam, ord, opt, loss)
        regularized_loss == Add(loss, term)
        e1 == Event("_regularize_loss", <<loss>>, term)
        e2 == Event("backward", <<regularized_loss>>, b)
        e3 == Event("record", <<"regularized_loss", regularized_loss>>, Unset)
    IN  IF b.status # "ok" THEN Step(lam, opt, <<e1, e2>>, b)
        ELSE Step(lam, opt, <<e1, e2, e3>>, Outcome("ok", regularized_loss))

\* WeightRegularizer.regularize that records the loss as the loss family does.
MutWeightRegularizeRecords(lam, opt, loss, b) ==
    LET e1 == Event("backward", <<loss>>, b)
        loop == LoopParams(lam, opt, 1, 1, <<e1>>)
        e2 == Event("record", <<"regularized_loss", loss>>, Unset)
    IN  IF b.status # "ok" THEN Step(lam, opt, <<e1>>, b)
        ELSE Step(lam, loop.optimizer, Append(loop.events, e2), Outcome("ok", Unset))

\* WeightRegularizer.regularize with the backward pass after the loops.
MutWeightRegularizeBackwardLast(lam, opt, loss, b) ==
    LET loop == LoopParams(lam, opt, 1, 1, <<>>)
        e1 == Event("backward", <<loss>>, b)
    IN  IF b.status # "ok" THEN Step(lam, loop.optimizer, Append(loop.events, e1), b)
        ELSE Step(lam, loop.optimizer, Append(loop.events, e1), Outcome("ok", Unset))

\* WeightRegularizer.regularize, b the outcome of the backward pass.
WeightRegularizer_regularize(lam, opt, loss, b) ==
    LET e1 == Event("backward", <<loss>>, b)
        loop == LoopParams(lam, opt, 1, 1, <<e1>>)
    IN  IF b.status # "ok" THEN Step(lam, opt, <<e1>>, b)
        ELSE Step(lam, loop.optimizer, loop.events, Outcome("ok", Unset))

\* update_params that records the lambda it had before the assignment.
MutUpdateRecordsStale(lam, updater, opt, train_loss, val_loss, r) ==
    IF updater.type # "ConstantParamScaler"
    THEN LET o  == CallUpdater(updater, lam, train_loss, val_loss, r)
             e1 == Event("lambda_updater", <<lam, train_loss, val_loss>>, o)
             e2 == Event("record", <<"regularization_lambda", lam>>, Unset)
         IN  IF o.status # "ok" THEN Step(lam, opt, <<e1>>, o)
             ELSE Step(o.value, opt, <<e1, e2>>, Outcome("ok", Unset))
    ELSE Step(lam, opt, <<>>, Outcome("ok", Unset))

\* update_params that records lambda_ in a finally clause, so also when the
\* strategy raises.
MutUpdateRecordsOnError(lam, updater, opt, train_loss, val_loss, r) ==
    IF updater.type # "ConstantParamScaler"
    THEN LET o  == CallUpdater(updater, lam, train_loss, val_loss, r)
             e1 == Event("lambda_updater", <<lam, train_loss, val_loss>>, o)
             e2 == Event("record", <<"regularization_lambda",
                                     IF o.status = "ok" THEN o.value ELSE lam>>, Unset)
         IN  IF o.status # "ok" THEN Step(lam, opt, <<e1, e2>>, o)
             ELSE Step(o.value, opt, <<e1, e2>>, Outcome("ok", Unset))
    ELSE Step(lam, opt, <<>>, Outcome("ok", Unset))

\* update_params without the isinstance test: every strategy is called and logged.
MutUpdateNoConstantSkip(lam, updater, opt, train_loss, val_loss, r) ==
    LET o  == CallUpdater(updater, lam, train_loss, val_loss, r)
        e1 == Event("lambda_updater", <<lam, train_loss, val_loss>>, o)
        e2 == Event("record", <<"regularization_lambda", o.value>>, Unset)
    IN  IF o.status # "ok" THEN Step(lam, opt, <<e1>>, o)
        ELSE Step(o.value, opt, <<e1, e2>>, Outcome("ok", Unset))

\* Regularizer.update_params, r the outcome of a strategy that is neither class.
update_params(lam, updater, opt, train_loss, val_loss, r) ==
    IF updater.type # "ConstantParamScaler"
    THEN LET o  == CallUpdater(updater, lam, train_loss, val_loss, r)
             e1 == Event("lambda_updater", <<lam, train_loss, val_loss>>, o)
             e2 == Event("record", <<"regularization_lambda", o.value>>, Unset)
         IN  IF o.status # "ok" THEN Step(lam, opt, <<e1>>, o)
             ELSE Step(o.value, opt, <<e1, e2>>, Outcome("ok", Unset))
    ELSE Step(lam, opt, <<>>, Outcome("ok", Unset))

\* Regularizer.__init__ without the record of the initial lambda.
MutInitNoRecord(optimizer_, initial_lambda, lambda_updater_, logger_, p_) ==
    [optimizer |-> optimizer_, lambda_ |-> initial_lambda,
     lambda_updater |-> lambda_updater_, logger |-> logger_, p |-> p_,
     events |-> <<>>, outcome |-> Outcome("ok", Unset)]

\* Regularizer.__init__, then self.p = p in LpRegularizer.__init__: the fields
\* and the events.
Regularizer_init(optimizer_, initial_lambda, lambda_updater_, logger_, p_) ==
    [optimizer |-> optimizer_, lambda_ |-> initial_lambda,
     lambda_updater |-> lambda_updater_, logger |-> logger_, p |-> p_,
     events |-> <<Event("record", <<"regularization_lambda", initial_lambda>>, Unset)>>,
     outcome |-> Outcome("ok", Unset)]

(***************************************************************************)
(* Inputs.                                                                 *)
(***************************************************************************)
Group(lr, params) == [lr |-> lr, params |-> params]

\* One group (lr 0.1, one parameter of value 2.0); two groups with distinct
\* learning rates, the second holding two parameters and one of two entries.
Optimizers ==
    { << Group(Rat(1, 10), << <<Rat(2, 1)>> >>) >>,
      << Group(Rat(1, 10), << <<Rat(2, 1)>> >>),
         Group(Rat(1, 2), << <<Rat(3, 1), Rat(-1, 1)>>, <<Rat(1, 2)>> >>) >> }

InitialLambdas == {Zero, Rat(1, 2), Rat(-1, 1)}

Updater(t, sf, iv) == [type |-> t, scaling_factor |-> sf, tolerable_interval |-> iv]

Updaters ==
    { Updater("IntervalParamScaler", Rat(1, 10), <<Rat(9, 10), Rat(11, 10)>>),
      Updater("ConstantParamScaler", Zero, <<Zero, Zero>>),
      Updater("Custom", Zero, <<Zero, Zero>>) }

FloatValues == {Rat(1, 2), Rat(9, 10), One, Rat(11, 10), Rat(3, 2), Zero, Rat(-1, 1), NaN}

\* The losses a strategy is called with directly.
ValLosses ==
    {Loss("float", v) : v \in FloatValues}
    \cup {Loss("tensor0", v) : v \in {One, Zero, Rat(3, 2)}}
    \cup {Loss("tensor1", One), Loss("int", One)}

TrainLosses == {l \in ValLosses : l.v \in {One, Zero, Rat(-1, 1)}}

\* The losses update_params is called with.
UpdateValLosses ==
    {Loss("float", Rat(3, 2)), Loss("float", Rat(1, 2)), Loss("float", Rat(11, 10)),
     Loss("tensor0", One), Loss("tensor1", One)}

UpdateTrainLosses ==
    {Loss("float", One), Loss("float", Zero), Loss("tensor1", One), Loss("int", One)}

\* What a strategy that is neither class may do: return a float or raise.
CustomOutcomes == {Outcome("ok", Zero), Outcome("ok", Rat(3, 1)), Outcome("ValueError", Unset)}

NotCustom == {Outcome("ok", Zero)}

RegLosses == {Zero, One, Rat(-1, 2)}

NoCall == [op |-> "none", args |-> <<>>, events |-> <<>>, outcome |-> Outcome("none", Unset)]

Call(o, a, step) == [op |-> o, args |-> a, events |-> step.events, outcome |-> step.outcome]

(***************************************************************************)
(* The state machine.                                                      *)
(***************************************************************************)
NoUpdater == Updater("unset", Zero, <<Zero, Zero>>)

Unbound == [optimizer |-> "unset", logger |-> "unset"]

\* Subclasses of the two families that do not define the family's abstract method.
AbstractClasses == {"LossRegularizerSubclass", "WeightRegularizerSubclass"}

\* Instantiation that runs __init__ whatever the class leaves abstract.
MutInstantiateUnchecked(class, optimizer_, initial_lambda, lambda_updater_, logger_, p_) ==
    Regularizer_init(optimizer_, initial_lambda, lambda_updater_, logger_, p_)

\* cls(...): Regularizer derives from abc.ABC, so a class that still has an
\* abstract method is refused by object.__new__ with TypeError and __init__ does
\* not run; otherwise __init__ runs.
Instantiate(class, optimizer_, initial_lambda, lambda_updater_, logger_, p_) ==
    IF class \in AbstractClasses
    THEN [optimizer |-> Unbound.optimizer, lambda_ |-> Unset, lambda_updater |-> NoUpdater,
          logger |-> Unbound.logger, p |-> 0, events |-> <<>>,
          outcome |-> Outcome("TypeError", Unset)]
    ELSE Regularizer_init(optimizer_, initial_lambda, lambda_updater_, logger_, p_)

Init ==
    /\ pc = "new"
    /\ cls \in {"LpRegularizer", "WeightDecayRegularizer"} \cup AbstractClasses
    /\ optimizer \in Optimizers
    /\ logger = <<>>
    /\ args \in [initial_lambda : InitialLambdas, lambda_updater : Updaters, p : 0..MaxP]
    /\ (cls = "LpRegularizer") = (args.p >= 1)
    /\ bound = Unbound
    /\ lambda_ = Unset
    /\ lambda_updater = NoUpdater
    /\ p = 0
    /\ last = NoCall
    /\ ncalls = 0

\* LpRegularizer(optimizer, initial_lambda, lambda_updater, logger, p) or
\* WeightDecayRegularizer(optimizer, initial_lambda, lambda_updater, logger)
Construct ==
    /\ pc = "new"
    /\ LET s == Instantiate(cls, "optimizer", args.initial_lambda, args.lambda_updater,
                            "logger", args.p)
       IN  /\ bound' = [optimizer |-> s.optimizer, logger |-> s.logger]
           /\ lambda_' = s.lambda_
           /\ lambda_updater' = s.lambda_updater
           /\ p' = s.p
           /\ logger' = logger \o RecordsOf(s.events)
           /\ last' = Call(IF s.outcome.status = "ok" THEN "__init__" ELSE "__new__",
                           <<args.initial_lambda>>, s)
           /\ pc' = IF s.outcome.status = "ok" THEN "ready" ELSE "failed"
    /\ UNCHANGED <<cls, optimizer, args, ncalls>>

\* regularizer.update_params(train_loss, val_loss)
UpdateParams ==
    /\ pc = "ready"
    /\ bound.logger = "logger"
    /\ ncalls < MaxCalls
    /\ \E train_loss \in UpdateTrainLosses, val_loss \in UpdateValLosses,
          r \in IF lambda_updater.type = "Custom" THEN CustomOutcomes ELSE NotCustom :
         LET s == update_params(lambda_, lambda_updater, optimizer, train_loss, val_loss, r)
         IN  /\ lambda_' = s.lambda_
             /\ logger' = logger \o RecordsOf(s.events)
             /\ last' = Call("update_params", <<train_loss, val_loss>>, s)
    /\ ncalls' = ncalls + 1
    /\ UNCHANGED <<pc, cls, optimizer, args, bound, lambda_updater, p>>

\* regularizer.regularize(loss)
Regularize ==
    /\ pc = "ready"
    /\ bound = [optimizer |-> "optimizer", logger |-> "logger"]
    /\ ncalls < MaxCalls
    /\ \E loss \in RegLosses, b \in BackwardOutcomes :
         LET s == IF cls = "LpRegularizer"
                  THEN LossRegularizer_regularize(lambda_, p, optimizer, loss, b)
                  ELSE WeightRegularizer_regularize(lambda_, optimizer, loss, b)
         IN  /\ lambda_' = s.lambda_
             /\ optimizer' = s.optimizer
             /\ logger' = logger \o RecordsOf(s.events)
             /\ last' = Call("regularize", <<loss>>, s)
    /\ ncalls' = ncalls + 1
    /\ UNCHANGED <<pc, cls, args, bound, lambda_updater, p>>

Next == Construct \/ UpdateParams \/ Regularize

Spec == Init /\ [][Next]_vars

(***************************************************************************)
(* The strategies on their own: a strategy object is built and called      *)
(* directly with every combination of the inputs.                          *)
(***************************************************************************)
Strategies ==
    { Updater("IntervalParamScaler", Rat(1, 10), <<Rat(9, 10), Rat(11, 10)>>),
      Updater("IntervalParamScaler", Rat(1, 2), <<Rat(1, 2), Rat(3, 2)>>),
      Updater("ConstantParamScaler", Zero, <<Zero, Zero>>) }

\* IntervalParamScaler(scaling_factor, tolerable_interval) or ConstantParamScaler()
StrategyInit ==
    /\ pc = "strategy"
    /\ cls = "none"
    /\ optimizer = <<>>
    /\ logger = <<>>
    /\ args = [initial_lambda |-> Zero, lambda_updater |-> NoUpdater, p |-> 0]
    /\ bound = Unbound
    /\ lambda_ = Unset
    /\ lambda_updater \in Strategies
    /\ p = 0
    /\ last = NoCall
    /\ ncalls = 0

\* __call__ with val_loss /= train_loss for val_loss / train_loss: a tensor
\* val_loss of the caller is overwritten with the ratio.
MutEffectsInPlaceRatio(self, lam, train_loss, val_loss) ==
    [self |-> self, lambda_ |-> lam, train_loss |-> train_loss,
     val_loss |-> IF val_loss.kind = "tensor0" /\ ScalarCheck(train_loss) = "ok"
                  THEN Loss("tensor0", IeeeDiv(val_loss.v, train_loss.v))
                  ELSE val_loss]

\* What a call of either __call__ leaves in the strategy object and in the caller's
\* three arguments: no attribute of self is assigned; lambda_ *= ... rebinds the
\* local name of an immutable float, del train_loss, val_loss unbinds local names,
\* and val_loss / train_loss builds a new value.
StrategyEffects(self, lam, train_loss, val_loss) ==
    [self |-> self, lambda_ |-> lam, train_loss |-> train_loss, val_loss |-> val_loss]

\* lambda_updater(lam, train_loss, val_loss)
CallStrategy ==
    /\ pc = "strategy"
    /\ \E lam \in InitialLambdas, train_loss \in TrainLosses, val_loss \in ValLosses :
         LET o == CallUpdater(lambda_updater, lam, train_loss, val_loss, Outcome("ok", Zero))
             after == StrategyEffects(lambda_updater, lam, train_loss, val_loss)
         IN  /\ lambda_updater' = after.self
             /\ last' = [op |-> "lambda_updater", args |-> <<lam, train_loss, val_loss>>,
                         events |-> <<Event("after", <<after.lambda_, after.train_loss,
                                                      after.val_loss>>, Unset)>>,
                         outcome |-> o]
    /\ UNCHANGED <<pc, cls, optimizer, logger, args, bound, lambda_, p, ncalls>>

StrategyNext == CallStrategy

StrategySpec == StrategyInit /\ [][StrategyNext]_vars


(***************************************************************************)
(* imitation.rewards.serialize._validate_wrapper_structure.  A reward net  *)
(* is the sequence of the classes of its wrappers, outermost first, ending *)
(* with the class of the wrapped net; only a wrapper has the attribute     *)
(* base.                                                                   *)
(***************************************************************************)
MaxDepth == 2
MaxPrefixLen == 3

WrapperClasses == {"WrapperB", "NormalizedRewardNet"}

NetClasses == {"RewardNetA"}

\* The types a prefix may list: the classes and the base class of the wrappers.
PrefixTypes == WrapperClasses \cup NetClasses \cup {"RewardNetWrapper"}

\* isinstance(wrapper, t) for a wrapper of class c
IsInstance(c, t) ==
    \/ c = t
    \/ t = "RewardNet"
    \/ (t = "RewardNetWrapper" /\ c \in WrapperClasses)

\* hasattr(wrapper, "base") for the wrapper at level i of net
HasBase(net, i) == net[i] \in WrapperClasses

RewardNets ==
    UNION { {w \o <<n>> : w \in [1..d -> WrapperClasses], n \in NetClasses} : d \in 0..(MaxDepth - 1) }

Prefixes == UNION { [1..n -> PrefixTypes] : n \in 0..MaxPrefixLen }

PrefixLists == UNION { [1..n -> Prefixes] : n \in 0..2 }

RECURSIVE PrefixValid(_, _, _)
\* The loop `for t in prefix` from its i-th type on, wrapper being level i of net:
\* the value of valid when the loop ends.
PrefixValid(net, prefix, i) ==
    IF i > Len(prefix) THEN TRUE
    ELSE IF ~IsInstance(net[i], prefix[i]) THEN FALSE
    ELSE IF HasBase(net, i) THEN PrefixValid(net, prefix, i + 1)
    ELSE TRUE

\* _validate_wrapper_structure(reward_net, prefixes): the net, or TypeError with
\* the prefixes and the structure found.
validate_wrapper_structure(reward_net, prefixes) ==
    IF \E k \in DOMAIN prefixes : PrefixValid(reward_net, prefixes[k], 1)
    THEN Outcome("ok", reward_net)
    ELSE Outcome("TypeError", <<prefixes, reward_net>>)

WrapperInit ==
    /\ pc = "wrapper"
    /\ cls = "none"
    /\ optimizer = <<>>
    /\ logger = <<>>
    /\ args = [initial_lambda |-> Zero, lambda_updater |-> NoUpdater, p |-> 0]
    /\ bound = Unbound
    /\ lambda_ = Unset
    /\ lambda_updater = NoUpdater
    /\ p = 0
    /\ last = NoCall
    /\ ncalls = 0

\* _validate_wrapper_structure(reward_net, prefixes)
ValidateWrapperStructure ==
    /\ pc = "wrapper"
    /\ last = NoCall
    /\ \E reward_net \in RewardNets, prefixes \in PrefixLists :
         last' = [op |-> "_validate_wrapper_structure", args |-> <<reward_net, prefixes>>,
                  events |-> <<>>,
                  outcome |-> validate_wrapper_structure(reward_net, prefixes)]
    /\ UNCHANGED <<pc, cls, optimizer, logger, args, bound, lambda_, lambda_updater, p,
                   ncalls>>

WrapperNext == ValidateWrapperStructure

WrapperSpec == WrapperInit /\ [][WrapperNext]_vars

(***************************************************************************)
(* imitation.scripts.parallel.  A value is a record of its Python type and *)
(* its items; a dict's items are a function from its keys, a sequence's    *)
(* items a tuple.  A call of parallel is recorded in last with the calls   *)
(* it made of ray.init, the trial function, Experiment.run, ray.tune.run,  *)
(* ExperimentAnalysis and ray.shutdown, in order.                          *)
(***************************************************************************)
MaxRepeat == 2

Value(t, i) == [type |-> t, items |-> i]

\* isinstance(v, collections.abc.Sequence)
IsSequence(v) == v.type \in {"list", "tuple"}

\* isinstance(v, collections.abc.Mapping)
IsMapping(v) == v.type = "dict"

EmptyDict == [k \in {} |-> 0]

\* d.update(e) on the items of two dicts
DictUpdate(d, e) ==
    [k \in DOMAIN d \cup DOMAIN e |-> IF k \in DOMAIN e THEN e[k] ELSE d[k]]

\* d.update(seed=v)
DictSet(d, key, v) == [k \in DOMAIN d \cup {key} |-> IF k = key THEN v ELSE d[k]]

\* d without the key (d.pop(key) leaves it)
DictPop(d, key) == [k \in DOMAIN d \ {key} |-> d[k]]

BaseNamedConfigs ==
    {Value("list", <<"fast">>), Value("tuple", <<"fast">>), Value("set", <<"fast">>)}

SearchNamedConfigs ==
    {Value("list", <<"seals">>), Value("tuple", <<"seals">>), Value("set", <<"seals">>)}

ConfigKeys == {"seed", "lr"}

Dicts(v) == UNION { [K -> {v}] : K \in SUBSET ConfigKeys }

BaseConfigUpdates == {Value("dict", d) : d \in Dicts(1)} \cup {Value("list", <<"seed">>)}

SearchConfigUpdates == {Value("dict", d) : d \in Dicts(2)} \cup {Value("list", <<"seed">>)}

SearchAlgs == {"optuna", "None"}

NumSamples == {1, 2}

CheckpointPaths == {"", "ray_results/run"}

RunStatuses == {"COMPLETED", "FAILED"}

\* The trial function with the update of the base config updates last.
MutInnerBasePriority(config, base_named_configs, base_config_updates, status) ==
    IF config["named_configs"].type # "list"
    THEN [events |-> <<Event("inner", config, "raise")>>, outcome |-> Outcome("TypeError", Unset)]
    ELSE LET named_configs == base_named_configs \o config["named_configs"].items
             cu2 == DictUpdate(DictUpdate(EmptyDict, config["config_updates"].items),
                               base_config_updates)
             cu3 == IF "__trial_index__" \in DOMAIN config
                    THEN DictSet(cu2, "seed", config["__trial_index__"])
                    ELSE cu2
             run_kwargs == DictPop(config, "__trial_index__")
             updated_run_kwargs ==
                 DictUpdate(run_kwargs,
                            [named_configs |-> Value("list", named_configs),
                             config_updates |-> Value("dict", cu3)])
         IN  [events |-> <<Event("inner", config, "call"),
                           Event("ex.run", updated_run_kwargs, status)>>,
              outcome |-> IF status = "COMPLETED" THEN Outcome("ok", Unset)
                          ELSE Outcome("AssertionError", Unset)]

\* _ray_tune_sacred_wrapper(...).inner(config, reporter), for the base named
\* configs (a list) and base config updates (a dict) of the wrapper; status is the
\* status of the run that ex.run returns.
inner(config, base_named_configs, base_config_updates, status) ==
    IF config["named_configs"].type # "list"
    THEN \* list + tuple
         [events |-> <<Event("inner", config, "raise")>>, outcome |-> Outcome("TypeError", Unset)]
    ELSE LET named_configs == base_named_configs \o config["named_configs"].items
             cu1 == DictUpdate(EmptyDict, base_config_updates)
             cu2 == DictUpdate(cu1, config["config_updates"].items)
             cu3 == IF "__trial_index__" \in DOMAIN config
                    THEN DictSet(cu2, "seed", config["__trial_index__"])
                    ELSE cu2
             run_kwargs == DictPop(config, "__trial_index__")
             updated_run_kwargs ==
                 DictUpdate(run_kwargs,
                            [named_configs |-> Value("list", named_configs),
                             config_updates |-> Value("dict", cu3)])
         IN  [events |-> <<Event("inner", config, "call"),
                           Event("ex.run", updated_run_kwargs, status)>>,
              outcome |-> IF status = "COMPLETED" THEN Outcome("ok", Unset)
                          ELSE Outcome("AssertionError", Unset)]

\* The config of the k-th trial: the search space, and under the Repeater the
\* index of the trial among the repetitions of its sample.
TrialConfig(search_space, search_alg, repeat, k) ==
    IF search_alg = "optuna"
    THEN DictSet(search_space, "__trial_index__", (k - 1) % repeat)
    ELSE search_space

RECURSIVE RunTrials(_, _, _, _, _, _, _, _)
\* ray.tune.run: the trials k..n, one after the other; failed tells whether a
\* trial before the k-th raised.
RunTrials(k, n, search_space, search_alg, repeat, base_nc, base_cu, status) ==
    IF k > n THEN [events |-> <<>>, failed |-> FALSE]
    ELSE LET t == inner(TrialConfig(search_space, search_alg, repeat, k), base_nc, base_cu,
                        status)
             rest == RunTrials(k + 1, n, search_space, search_alg, repeat, base_nc, base_cu,
                               status)
         IN  [events |-> t.events \o rest.events,
              failed |-> (t.outcome.status # "ok") \/ rest.failed]

\* parallel(...) with every validation passed and ray.init returned.
AfterRayInit(num_samples, search_space, base_nc, base_cu, repeat, search_alg, experiment_checkpoint_path, load_ok, status) ==
    IF search_alg # "optuna" /\ repeat # 1
    THEN [events |-> <<>>, outcome |-> Outcome("AssertionError", Unset)]
    ELSE IF experiment_checkpoint_path # ""
    THEN [events |-> <<Event("ray.tune.ExperimentAnalysis", experiment_checkpoint_path,
                             IF load_ok THEN "ok" ELSE "raise"),
                       Event("ray.shutdown", Unset, "ok")>>,
          outcome |-> IF load_ok THEN Outcome("ok", "analysis") ELSE Outcome("ValueError", Unset)]
    ELSE LET run == RunTrials(1, num_samples * repeat, search_space, search_alg, repeat,
                              base_nc, base_cu, status)
         IN  [events |-> run.events
                         \o <<Event("ray.tune.run", search_space,
                                    IF run.failed THEN "raise" ELSE "ok"),
                              Event("ray.shutdown", Unset, "ok")>>,
              outcome |-> IF run.failed THEN Outcome("TuneError", Unset)
                          ELSE Outcome("ok", "analysis")]

\* parallel(...)
parallel(num_samples, search_space, base_named_configs, base_config_updates, repeat, search_alg, experiment_checkpoint_path, init_ok, load_ok, status) ==
    IF ~IsSequence(base_named_configs)
    THEN [events |-> <<>>, outcome |-> Outcome("TypeError", "base_named_configs")]
    ELSE IF ~IsMapping(base_config_updates)
    THEN [events |-> <<>>, outcome |-> Outcome("TypeError", "base_config_updates")]
    ELSE IF ~IsSequence(search_space["named_configs"])
    THEN [events |-> <<>>, outcome |-> Outcome("TypeError", "search_space.named_configs")]
    ELSE IF ~IsMapping(search_space["config_updates"])
    THEN [events |-> <<>>, outcome |-> Outcome("TypeError", "search_space.config_updates")]
    ELSE IF ~init_ok
    THEN [events |-> <<Event("ray.init", Unset, "raise")>>,
          outcome |-> Outcome("ConnectionError", Unset)]
    ELSE LET rest == AfterRayInit(num_samples, search_space, base_named_configs.items,
                                  base_config_updates.items, repeat, search_alg,
                                  experiment_checkpoint_path, load_ok, status)
         IN  [events |-> <<Event("ray.init", Unset, "ok")>> \o rest.events,
              outcome |-> rest.outcome]

ParallelInit ==
    /\ pc = "parallel"
    /\ cls = "none"
    /\ optimizer = <<>>
    /\ logger = <<>>
    /\ args = [initial_lambda |-> Zero, lambda_updater |-> NoUpdater, p |-> 0]
    /\ bound = Unbound
    /\ lambda_ = Unset
    /\ lambda_updater = NoUpdater
    /\ p = 0
    /\ last = NoCall
    /\ ncalls = 0

\* parallel(...), the trials that ray.tune.run launches included
Parallel ==
    /\ pc = "parallel"
    /\ last = NoCall
    /\ \E num_samples \in NumSamples, repeat \in 1..MaxRepeat, search_alg \in SearchAlgs,
          base_named_configs \in BaseNamedConfigs, base_config_updates \in BaseConfigUpdates,
          named_configs \in SearchNamedConfigs, config_updates \in SearchConfigUpdates,
          experiment_checkpoint_path \in CheckpointPaths,
          init_ok \in BOOLEAN, load_ok \in BOOLEAN, status \in RunStatuses :
         LET search_space == [named_configs |-> named_configs,
                              config_updates |-> config_updates]
         IN  last' = Call("parallel",
                          [num_samples |-> num_samples, search_space |-> search_space,
                           base_named_configs |-> base_named_configs,
                           base_config_updates |-> base_config_updates,
                           repeat |-> repeat, search_alg |-> search_alg,
                           experiment_checkpoint_path |-> experiment_checkpoint_path],
                          parallel(num_samples, search_space, base_named_configs,
                                   base_config_updates, repeat, search_alg,
                                   experiment_checkpoint_path, init_ok, load_ok, status))
    /\ UNCHANGED <<pc, cls, optimizer, logger, args, bound, lambda_, lambda_updater, p,
                   ncalls>>

ParallelNext == Parallel

ParallelSpec == ParallelInit /\ [][ParallelNext]_vars

(***************************************************************************)
(* Properties.                                                             *)
(***************************************************************************)
\* The records made under "regularization_lambda", oldest first.
LambdaRecords(log) == SelectSeq(log, LAMBDA rec : rec[1] = "regularization_lambda")

Count(events, e) == Cardinality({k \in DOMAIN events : events[k].ev = e})

\* C1: with a strategy that is not a ConstantParamScaler, every update_params call
\* that returns normally calls the strategy once with (current lambda_, train_loss,
\* val_loss), assigns the returned value to lambda_ and appends exactly one record
\* ("regularization_lambda", returned value) to the logger.
C1_UpdateCallsStrategyAndRecordsOnce ==
    [][ ( /\ ncalls' = ncalls + 1
          /\ last'.op = "update_params"
          /\ lambda_updater.type # "ConstantParamScaler"
          /\ last'.outcome.status = "ok" )
        => /\ Count(last'.events, "lambda_updater") = 1
           /\ last'.events[1].ev = "lambda_updater"
           /\ last'.events[1].args = <<lambda_, last'.args[1], last'.args[2]>>
           /\ last'.events[1].ret.status = "ok"
           /\ lambda_' = last'.events[1].ret.value
           /\ logger' = Append(logger, <<"regularization_lambda", last'.events[1].ret.value>>)
      ]_vars

\* Two successive updates with an IntervalParamScaler have each changed lambda_.
C1_Witness ==
    /\ last.op = "update_params"
    /\ last.outcome.status = "ok"
    /\ lambda_updater.type = "IntervalParamScaler"
    /\ Len(logger) = 3
    /\ logger[3][2] # logger[2][2]
    /\ logger[2][2] # logger[1][2]

\* C2: with a ConstantParamScaler, update_params never calls the strategy and never
\* records: the only "regularization_lambda" record is the constructor's, and
\* lambda_ stays initial_lambda.
C2_ConstantUpdateIsSilent ==
    (pc = "ready" /\ lambda_updater.type = "ConstantParamScaler")
    => /\ lambda_ = args.initial_lambda
       /\ LambdaRecords(logger) = << <<"regularization_lambda", args.initial_lambda>> >>
       /\ last.op = "update_params" => (last.events = <<>> /\ last.outcome.status = "ok")

C2_Witness ==
    /\ lambda_updater.type = "ConstantParamScaler"
    /\ last.op = "update_params"
    /\ last.args = <<Loss("tensor1", One), Loss("float", Rat(3, 2))>>
    /\ ncalls = 2
    /\ Len(logger) = 1

\* C3: construction binds the optimizer and the logger, sets lambda_ to
\* initial_lambda and the strategy, and makes exactly one record
\* ("regularization_lambda", initial_lambda), the first the logger receives.
C3_ConstructionRecordsInitialLambda ==
    /\ pc = "new" => (logger = <<>> /\ last = NoCall)
    /\ last.op = "__init__"
       => /\ bound = [optimizer |-> "optimizer", logger |-> "logger"]
          /\ lambda_ = args.initial_lambda
          /\ lambda_updater = args.lambda_updater
          /\ logger = << <<"regularization_lambda", args.initial_lambda>> >>
          /\ last.events
               = <<Event("record", <<"regularization_lambda", args.initial_lambda>>, Unset)>>
    /\ pc = "ready"
       => /\ Len(logger) >= 1
          /\ logger[1] = <<"regularization_lambda", args.initial_lambda>>

C3_Witness ==
    /\ last.op = "__init__"
    /\ pc = "ready"
    /\ args.initial_lambda = Rat(1, 2)
    /\ args.lambda_updater.type = "IntervalParamScaler"

\* C4: regularize, of either family, leaves lambda_ and the "regularization_lambda"
\* records as they were; lambda_ changes only in the constructor and in
\* update_params.
C4_RegularizeKeepsLambda ==
    [][ /\ (ncalls' = ncalls + 1 /\ last'.op = "regularize")
           => (lambda_' = lambda_ /\ LambdaRecords(logger') = LambdaRecords(logger))
        /\ lambda_' # lambda_ => (pc = "new" \/ last'.op = "update_params")
      ]_vars

\* A successful regularize of the loss family after an update that changed lambda_.
C4_Witness ==
    /\ last.op = "regularize"
    /\ last.outcome.status = "ok"
    /\ cls = "LpRegularizer"
    /\ lambda_ # args.initial_lambda
    /\ Len(logger) = 3

\* v/t > h for h finite and v, t finite or NaN: by cross-multiplication when t is
\* not zero; v/0 is +inf, -inf or NaN by the sign of v.
RatioAbove(v, t, h) ==
    IF IsNaN(v) \/ IsNaN(t) THEN FALSE
    ELSE IF t[1] = 0 THEN v[1] > 0
    ELSE IF t[1] > 0 THEN v[1] * t[2] * h[2] > h[1] * v[2] * t[1]
    ELSE v[1] * t[2] * h[2] < h[1] * v[2] * t[1]

RatioBelow(v, t, h) ==
    IF IsNaN(v) \/ IsNaN(t) THEN FALSE
    ELSE IF t[1] = 0 THEN v[1] < 0
    ELSE IF t[1] > 0 THEN v[1] * t[2] * h[2] < h[1] * v[2] * t[1]
    ELSE v[1] * t[2] * h[2] > h[1] * v[2] * t[1]

ScalarKinds == {"float", "tensor0"}

\* C5: IntervalParamScaler called with scalar losses (floats or zero-dimensional
\* tensors) whose ratio val_loss / train_loss can be computed returns
\* lambda * (1 + scaling_factor) when the ratio is > high, lambda *
\* (1 - scaling_factor) when it is < low, and lambda otherwise, so also when the
\* ratio equals low or high.
C5_IntervalScaling ==
    ( /\ last.op = "lambda_updater"
      /\ lambda_updater.type = "IntervalParamScaler"
      /\ last.args[2].kind \in ScalarKinds
      /\ last.args[3].kind \in ScalarKinds
      /\ ~(last.args[2].kind = "float" /\ last.args[3].kind = "float"
           /\ last.args[2].v = Zero) )
    => LET lam  == last.args[1]
           t    == last.args[2].v
           v    == last.args[3].v
           sf   == lambda_updater.scaling_factor
           low  == lambda_updater.tolerable_interval[1]
           high == lambda_updater.tolerable_interval[2]
       IN  last.outcome =
             Outcome("ok",
                     IF RatioAbove(v, t, high) THEN Mul(lam, Add(One, sf))
                     ELSE IF RatioBelow(v, t, low) THEN Mul(lam, Sub(One, sf))
                     ELSE lam)

\* The ratio 1.1 / 1.0 equals the upper bound 1.1: lambda 0.5 is returned as it is.
C5_Witness ==
    /\ last.op = "lambda_updater"
    /\ lambda_updater = Updater("IntervalParamScaler", Rat(1, 10), <<Rat(9, 10), Rat(11, 10)>>)
    /\ last.args = <<Rat(1, 2), Loss("float", One), Loss("float", Rat(11, 10))>>
    /\ last.outcome = Outcome("ok", Rat(1, 2))


\* The set_param events of parameter i of group g among a call's events.
Adjustments(events, g, i) ==
    {k \in DOMAIN events :
        events[k].ev = "set_param" /\ events[k].args[1] = g /\ events[k].args[2] = i}

\* C6: after WeightDecayRegularizer.regularize(loss) every entry w of every
\* parameter of every group g is w + (-lambda_ * g["lr"] * w), with the learning
\* rate of the group that owns the parameter, and each parameter is assigned
\* exactly once.
C6_WeightDecayPerGroupRate ==
    [][ ( /\ ncalls' = ncalls + 1
          /\ last'.op = "regularize"
          /\ cls = "WeightDecayRegularizer"
          /\ last'.outcome.status = "ok" )
        => /\ Len(optimizer') = Len(optimizer)
           /\ \A g \in DOMAIN optimizer :
                /\ optimizer'[g].lr = optimizer[g].lr
                /\ Len(optimizer'[g].params) = Len(optimizer[g].params)
                /\ \A i \in DOMAIN optimizer[g].params :
                     /\ Len(optimizer'[g].params[i]) = Len(optimizer[g].params[i])
                     /\ \A k \in DOMAIN optimizer[g].params[i] :
                          LET w == optimizer[g].params[i][k]
                          IN  optimizer'[g].params[i][k]
                                = Add(w, Mul(Mul(Neg(lambda_), optimizer[g].lr), w))
                     /\ Cardinality(Adjustments(last'.events, g, i)) = 1
      ]_vars

\* One group of learning rate 0.1 whose parameter was 2.0, lambda 0.5: the delta
\* applied is -0.1 and the parameter is left at 1.9.
C6_Witness ==
    /\ cls = "WeightDecayRegularizer"
    /\ last.op = "regularize"
    /\ last.outcome.status = "ok"
    /\ lambda_ = Rat(1, 2)
    /\ optimizer = << Group(Rat(1, 10), << <<Rat(19, 10)>> >>) >>
    /\ last.events[2] = Event("set_param", <<1, 1, <<Rat(-1, 10)>> >>, <<Rat(19, 10)>>)

\* C7: WeightRegularizer.regularize(loss) first runs the backward pass, on the loss
\* it was given, and assigns parameters only after that pass has completed; when
\* the pass raises, no parameter has changed.
C7_BackwardBeforeMutation ==
    [][ ( /\ ncalls' = ncalls + 1
          /\ last'.op = "regularize"
          /\ cls = "WeightDecayRegularizer" )
        => /\ last'.events[1].ev = "backward"
           /\ last'.events[1].args = <<last'.args[1]>>
           /\ \A k \in DOMAIN last'.events : k > 1 => last'.events[k].ev = "set_param"
           /\ last'.events[1].ret.status # "ok"
              => /\ Len(last'.events) = 1
                 /\ optimizer' = optimizer
                 /\ last'.outcome = last'.events[1].ret
      ]_vars

\* A backward pass that raised, on the optimizer with two groups.
C7_Witness ==
    /\ cls = "WeightDecayRegularizer"
    /\ last.op = "regularize"
    /\ last.outcome.status = "RuntimeError"
    /\ Len(optimizer) = 2
    /\ lambda_ = Rat(1, 2)

\* C8: LossRegularizer.regularize(loss) computes combined = loss +
\* _regularize_loss(loss), runs the backward pass on combined, then records
\* ("regularized_loss", combined) and returns combined: one record per successful
\* call, none when the backward pass raises.
C8_LossRegularizeOrder ==
    [][ ( /\ ncalls' = ncalls + 1
          /\ last'.op = "regularize"
          /\ cls = "LpRegularizer" )
        => LET loss     == last'.args[1]
               combined == Add(loss, last'.events[1].ret)
           IN  /\ last'.events[1].ev = "_regularize_loss"
               /\ last'.events[1].args = <<loss>>
               /\ last'.events[2].ev = "backward"
               /\ last'.events[2].args = <<combined>>
               /\ IF last'.events[2].ret.status = "ok"
                  THEN /\ Len(last'.events) = 3
                       /\ last'.events[3]
                            = Event("record", <<"regularized_loss", combined>>, Unset)
                       /\ last'.outcome = Outcome("ok", combined)
                       /\ logger' = Append(logger, <<"regularized_loss", combined>>)
                  ELSE /\ Len(last'.events) = 2
                       /\ last'.outcome = last'.events[2].ret
                       /\ logger' = logger
      ]_vars

\* Loss 1 with a penalty that is not zero: the record and the result are 1 + penalty.
C8_Witness ==
    /\ cls = "LpRegularizer"
    /\ last.op = "regularize"
    /\ last.args = <<One>>
    /\ last.outcome.status = "ok"
    /\ last.events[1].ret # Zero
    /\ logger[Len(logger)] = <<"regularized_loss", Add(One, last.events[1].ret)>>

RECURSIVE SumSeq(_)
SumSeq(xs) == IF xs = <<>> THEN Zero ELSE Add(Head(xs), SumSeq(Tail(xs)))

RECURSIVE Concat(_)
Concat(xss) == IF xss = <<>> THEN <<>> ELSE Head(xss) \o Concat(Tail(xss))

\* Every entry of every parameter of every group.
AllEntries(opt) == Concat([g \in DOMAIN opt |-> Concat(opt[g].params)])

\* C9: LpRegularizer._regularize_loss(loss) is lambda_ times the sum, over every
\* entry of every parameter of every group, of |entry|^p, whatever the loss.
C9_LpPenalty ==
    (last.op = "regularize" /\ cls = "LpRegularizer")
    => LET es == AllEntries(optimizer)
       IN  /\ last.events[1].ev = "_regularize_loss"
           /\ last.events[1].ret
                = Mul(lambda_, SumSeq([k \in DOMAIN es |-> RPow(RAbs(es[k]), p)]))

\* p = 2, lambda 0.5, parameters (2), (3, -1), (0.5) in two groups:
\* 0.5 * (4 + 9 + 1 + 0.25) = 57/8, here for the loss -0.5.
C9_Witness ==
    /\ cls = "LpRegularizer"
    /\ last.op = "regularize"
    /\ last.args = <<Rat(-1, 2)>>
    /\ p = 2
    /\ lambda_ = Rat(1, 2)
    /\ Len(optimizer) = 2
    /\ last.events[1].ret = Rat(57, 8)

\* C10: ConstantParamScaler returns the lambda it was given and does not raise,
\* for every pair of losses: NaN, zero, negative, non-scalar.
C10_ConstantReturnsLambda ==
    (last.op = "lambda_updater" /\ lambda_updater.type = "ConstantParamScaler")
    => last.outcome = Outcome("ok", last.args[1])

\* Called with a non-scalar train_loss and a NaN val_loss.
C10_Witness ==
    /\ last.op = "lambda_updater"
    /\ lambda_updater.type = "ConstantParamScaler"
    /\ last.args = <<Rat(-1, 1), Loss("tensor1", One), Loss("float", NaN)>>
    /\ last.outcome = Outcome("ok", Rat(-1, 1))


NonScalar(x) == x.kind = "tensor1"

\* A plain number (float or int) or a zero-dimensional tensor.
Scalar(x) == x.kind \in {"float", "int", "tensor0"}

\* C12: update_params with an IntervalParamScaler and a non-scalar train_loss or
\* val_loss fails with an assertion error before the ratio is computed, keeps
\* lambda_ and adds no record; every scalar loss, a plain number or a
\* zero-dimensional tensor, passes the check.
C12_NonScalarAssertsScalarPasses ==
    [][ ( /\ ncalls' = ncalls + 1
          /\ last'.op = "update_params"
          /\ lambda_updater.type = "IntervalParamScaler" )
        => /\ (NonScalar(last'.args[1]) \/ NonScalar(last'.args[2]))
              => /\ last'.outcome.status = "AssertionError"
                 /\ lambda_' = lambda_
                 /\ logger' = logger
           /\ (Scalar(last'.args[1]) /\ Scalar(last'.args[2]))
              => last'.outcome.status \in {"ok", "ZeroDivisionError"}
      ]_vars

\* C13: when val_loss / train_loss fails inside IntervalParamScaler because
\* train_loss is zero (both losses Python floats), the ZeroDivisionError leaves
\* update_params uncaught, lambda_ keeps its value and no record is added.
C13_ZeroDivisionPropagates ==
    [][ ( /\ ncalls' = ncalls + 1
          /\ last'.op = "update_params"
          /\ lambda_updater.type = "IntervalParamScaler"
          /\ last'.args[1] = Loss("float", Zero)
          /\ last'.args[2].kind = "float" )
        => /\ last'.outcome.status = "ZeroDivisionError"
           /\ Count(last'.events, "record") = 0
           /\ lambda_' = lambda_
           /\ logger' = logger
      ]_vars

\* The division failed in the call after an update that had scaled lambda_.
C13_Witness ==
    /\ last.op = "update_params"
    /\ lambda_updater.type = "IntervalParamScaler"
    /\ last.outcome.status = "ZeroDivisionError"
    /\ last.args = <<Loss("float", Zero), Loss("float", Rat(3, 2))>>
    /\ lambda_ # args.initial_lambda
    /\ Len(logger) = 2


\* C14 as claimed: a family subclass without its penalty method is constructed
\* successfully, recording the initial lambda, and fails only at the first
\* regularize call.
C14_AbstractFailsAtFirstUse ==
    (cls \in AbstractClasses /\ pc # "new")
    => /\ pc = "ready"
       /\ logger = << <<"regularization_lambda", args.initial_lambda>> >>
       /\ last.op = "regularize" => last.outcome.status = "TypeError"

\* C14, amended: a family subclass without its penalty method cannot be
\* instantiated: the constructor call raises TypeError before __init__ runs, so
\* nothing is recorded, no field is set and no method of it is ever called.
C14_AbstractFailsAtConstruction ==
    cls \in AbstractClasses
    => /\ pc \in {"new", "failed"}
       /\ logger = <<>>
       /\ lambda_ = Unset
       /\ bound = Unbound
       /\ ncalls = 0
       /\ pc = "failed"
          => /\ last.op = "__new__"
             /\ last.events = <<>>
             /\ last.outcome = Outcome("TypeError", Unset)

C14_Witness ==
    /\ cls = "LossRegularizerSubclass"
    /\ pc = "failed"
    /\ last.outcome.status = "TypeError"
    /\ args.initial_lambda = Rat(1, 2)


\* C15: WeightRegularizer.regularize makes no logger record, under
\* "regularized_loss" or any other key: the logger's records are the same before
\* and after the call, whether the backward pass completes or raises.
C15_WeightRegularizeDoesNotRecord ==
    [][ ( /\ ncalls' = ncalls + 1
          /\ last'.op = "regularize"
          /\ cls = "WeightDecayRegularizer" )
        => /\ Count(last'.events, "record") = 0
           /\ logger' = logger
      ]_vars

\* A successful call on the optimizer with two groups and three parameters.
C15_Witness ==
    /\ cls = "WeightDecayRegularizer"
    /\ last.op = "regularize"
    /\ last.outcome.status = "ok"
    /\ Len(optimizer) = 2
    /\ Count(last.events, "set_param") = 3
    /\ Len(logger) = 1

\* The step is an update_params call that returned normally with a strategy that
\* is not a ConstantParamScaler.
SuccessfulUpdate ==
    /\ ncalls' = ncalls + 1
    /\ last'.op = "update_params"
    /\ lambda_updater.type # "ConstantParamScaler"
    /\ last'.outcome.status = "ok"

\* C18: in every state after construction the latest "regularization_lambda"
\* record holds the current lambda_, and the number of these records is 1 plus the
\* number of update_params calls that returned normally with a strategy that is
\* not a ConstantParamScaler: the constructor makes the first, each such call adds
\* one, and no other call (regularize, a failing or a constant update) adds any.
C18_LambdaRecordsTrackLambda ==
    [][ /\ pc' = "ready"
           => /\ LambdaRecords(logger') # <<>>
              /\ LambdaRecords(logger')[Len(LambdaRecords(logger'))][2] = lambda_'
        /\ (pc = "new" /\ pc' = "ready") => Len(LambdaRecords(logger')) = 1
        /\ pc = "ready"
           => Len(LambdaRecords(logger'))
                = Len(LambdaRecords(logger)) + (IF SuccessfulUpdate THEN 1 ELSE 0)
      ]_vars

\* A successful update followed by one that failed its assertion.
C18_Witness ==
    /\ lambda_updater.type = "IntervalParamScaler"
    /\ ncalls = 2
    /\ last.op = "update_params"
    /\ last.outcome.status = "AssertionError"
    /\ Len(LambdaRecords(logger)) = 2
    /\ lambda_ # args.initial_lambda

\* C19: with an IntervalParamScaler, 0 < scaling_factor < 1 and initial_lambda >= 0,
\* lambda_ is never negative, and once it is 0 no update_params call changes it.
C19_LambdaStaysNonNegative ==
    [][ ( /\ pc' = "ready"
          /\ args.lambda_updater.type = "IntervalParamScaler"
          /\ Gt(args.lambda_updater.scaling_factor, Zero)
          /\ Lt(args.lambda_updater.scaling_factor, One)
          /\ args.initial_lambda[1] >= 0 )
        => /\ lambda_'[1] >= 0
           /\ (pc = "ready" /\ lambda_ = Zero) => lambda_' = Zero
      ]_vars

\* Lambda 0.5 scaled down twice: 0.5 * 0.9 * 0.9.
C19_Witness ==
    /\ lambda_updater.type = "IntervalParamScaler"
    /\ args.initial_lambda = Rat(1, 2)
    /\ last.op = "update_params"
    /\ lambda_ = Rat(81, 200)


\* A prefix matches when the net has a level for every type it lists and the
\* wrapper at each of these levels is an instance of the type listed for it.
PrefixMatches(net, prefix) ==
    /\ Len(prefix) <= Len(net)
    /\ \A i \in DOMAIN prefix : IsInstance(net[i], prefix[i])

\* C16: _validate_wrapper_structure returns reward_net exactly when some prefix
\* matches, every type of the prefix being present at the corresponding nesting
\* depth, and raises TypeError otherwise; a prefix listing more types than the net
\* has levels does not match.
C16_ValidateMatchesWholePrefix ==
    last.op = "_validate_wrapper_structure"
    => LET reward_net == last.args[1]
           prefixes   == last.args[2]
       IN  IF \E k \in DOMAIN prefixes : PrefixMatches(reward_net, prefixes[k])
           THEN last.outcome = Outcome("ok", reward_net)
           ELSE last.outcome.status = "TypeError"


\* The positions in the last call of parallel where Experiment.run was called;
\* the event before each is the call of the trial function with the trial's config.
ExRuns == {i \in DOMAIN last.events : last.events[i].ev = "ex.run"}

\* The config updates the claim of plain priority expects.
PlainPriority == DictUpdate(last.args.base_config_updates.items,
                            last.args.search_space["config_updates"].items)

ExpectedNamedConfigs ==
    Value("list", last.args.base_named_configs.items
                  \o last.args.search_space["named_configs"].items)

\* C17, as stated: in every trial the config updates passed to the run are, for
\* every key, the search space's value when the key is there and the base value
\* otherwise, and the named configs are the base ones followed by the search
\* space's.
C17_SearchSpacePriorityEveryKey ==
    last.op = "parallel"
    => \A i \in ExRuns :
         /\ last.events[i].args["config_updates"] = Value("dict", PlainPriority)
         /\ last.events[i].args["named_configs"] = ExpectedNamedConfigs

\* C17, amended: as above for every key but seed in a trial whose config carries
\* __trial_index__ (the repeated trials of the Repeater), where seed is that
\* trial index whatever the search space and the base say.
C17_SearchSpacePriorityButSeed ==
    last.op = "parallel"
    => \A i \in ExRuns :
         LET config == last.events[i - 1].args
             expected == IF "__trial_index__" \in DOMAIN config
                         THEN DictSet(PlainPriority, "seed", config["__trial_index__"])
                         ELSE PlainPriority
         IN  /\ last.events[i - 1].ev = "inner"
             /\ last.events[i].args["config_updates"] = Value("dict", expected)
             /\ last.events[i].args["named_configs"] = ExpectedNamedConfigs
             /\ DOMAIN last.events[i].args = {"named_configs", "config_updates"}

\* A repeated trial ran whose seed is set by both the base and the search space,
\* and a key other than seed too.
C17_Witness ==
    /\ last.op = "parallel"
    /\ last.args.base_config_updates.type = "dict"
    /\ last.args.search_space["config_updates"].type = "dict"
    /\ DOMAIN last.args.base_config_updates.items = ConfigKeys
    /\ DOMAIN last.args.search_space["config_updates"].items = ConfigKeys
    /\ \E i \in ExRuns :
         /\ "__trial_index__" \in DOMAIN last.events[i - 1].args
         /\ last.events[i].args["config_updates"].items["lr"] = 2
         /\ last.events[i].args["config_updates"].items["seed"] = 0
         /\ Len(last.events[i].args["named_configs"].items) = 2

\* The validation of the four config options failed in the last call of parallel.
ValidationFails ==
    \/ ~IsSequence(last.args.base_named_configs)
    \/ ~IsMapping(last.args.base_config_updates)
    \/ ~IsSequence(last.args.search_space["named_configs"])
    \/ ~IsMapping(last.args.search_space["config_updates"])

\* C20: a call of parallel in which ray.init returned calls ray.shutdown
\* afterwards, whatever happens after ray.init; and when a validation fails,
\* TypeError is raised and ray.init is not called.
C20_RayShutdownAfterInit ==
    last.op = "parallel"
    => /\ \A i \in DOMAIN last.events :
            (last.events[i].ev = "ray.init" /\ last.events[i].ret = "ok")
            => \E j \in DOMAIN last.events : j > i /\ last.events[j].ev = "ray.shutdown"
       /\ ValidationFails
            => /\ last.outcome.status = "TypeError"
               /\ \A i \in DOMAIN last.events : last.events[i].ev # "ray.init"

====
